---- MODULE Spec2Model ----
(***************************************************************************)
(* Model of scripts/virus_factory/generate_windows_3d_data.py: main()      *)
(* loads a volume, optionally pads it, cuts overlapping windows out of the *)
(* selected slices, writes one image per window and appends one row per    *)
(* window to a CSV manifest.                                               *)
(*                                                                         *)
(* Pixel values are kept in half units (the stored integer is twice the    *)
(* pixel value), so that the median of an even number of integer pixels,   *)
(* which numpy returns as the mean of the two middle values, is exact.     *)
(***************************************************************************)
EXTENDS Integers, Sequences, FiniteSets, TLC

VARIABLES
    pc,        \* position of main(): idle, pad, zenter, zloop, yloop, xloop, flush, done, error
    error,     \* the exception that ended the run ("None" while none was raised)
    args,      \* the parsed command line and the loaded /data of the current run
    data,      \* the array `data`: [dtype, vol], replaced by the padded array
    zS, zE,    \* the resolved slice bounds
    zs, ys, xs,\* the values the three range() iterators still have to yield
    z, yS, yE, \* loop variables of the two outer loops
    visited,   \* slices announced by "Processing slice"
    tiles,     \* the imsave calls of this run, in order
    csv_list,  \* the rows collected for the manifest by this run
    images,    \* names of the image files in the output directory
    csvfile,   \* the manifest file: [isfile, lines]
    nruns,     \* how many times main() was started
    history    \* the finished runs: their arguments, their tiles and how they ended

vars == <<pc, error, args, data, zS, zE, zs, ys, xs, z, yS, yE, visited, tiles,
          csv_list, images, csvfile, nruns, history>>

----------------------------------------------------------------------------
(* Bounds of the explored inputs *)

MaxSlices == 3
MaxExtent == 4
MaxWindow == 3
MaxOverlap == 2
NegOverlap == 1
MaxRuns == 2
MaxPix == 1

----------------------------------------------------------------------------
(* Python and numpy primitives *)

Min(a, b) == IF a <= b THEN a ELSE b

Max(a, b) == IF a >= b THEN a ELSE b

\* the stop value taken as included
PyRangeLenInclusive(start, stop, step) ==
    IF step > 0
    THEN IF start <= stop THEN ((stop - start) \div step) + 1 ELSE 0
    ELSE IF start >= stop THEN ((start - stop) \div (0 - step)) + 1 ELSE 0

\* the length rounded down: a last partial step is dropped
PyRangeLenFloor(start, stop, step) ==
    IF step > 0
    THEN IF start < stop THEN Max((stop - start) \div step, 1) ELSE 0
    ELSE IF start > stop THEN Max((start - stop) \div (0 - step), 1) ELSE 0

\* len(range(start, stop, step)) for step # 0
PyRangeLen(start, stop, step) ==
    IF step > 0
    THEN IF start < stop THEN (stop - start + step - 1) \div step ELSE 0
    ELSE IF start > stop THEN (start - stop + (0 - step) - 1) \div (0 - step) ELSE 0

\* list(range(start, stop, step)) for step # 0; range() raises ValueError for step = 0
PyRange(start, stop, step) ==
    [i \in 1..PyRangeLen(start, stop, step) |-> start + (i - 1) * step]

\* the index Python's slicing makes of a bound b on an axis of length n
PySliceIndex(b, n) == IF b < 0 THEN Max(b + n, 0) ELSE Min(b, n)

\* len(a[lo:hi]) on an axis of length n
PySliceLen(lo, hi, n) == Max(PySliceIndex(hi, n) - PySliceIndex(lo, n), 0)

DigitStr == <<"0", "1", "2", "3", "4", "5", "6", "7", "8", "9">>

\* int(s) for a decimal string
PyInt(s) == (CHOOSE i \in 1..Len(DigitStr) : DigitStr[i] = s) - 1

\* str(n) for n >= 0, as its sequence of digits
RECURSIVE PyStr(_)
PyStr(n) ==
    IF n < 10 THEN <<DigitStr[n + 1]>> ELSE Append(PyStr(n \div 10), DigitStr[(n % 10) + 1])

\* data.shape
Shape(vol) == <<Len(vol), Len(vol[1]), Len(vol[1][1])>>

\* the pixels of one 2D slice, flattened
Flatten(plane) ==
    LET h == Len(plane)
        w == Len(plane[1])
    IN  [i \in 1..(h * w) |-> plane[((i - 1) \div w) + 1][((i - 1) % w) + 1]]

\* the k-th smallest element of a sequence
KthSmallest(flat, k) ==
    CHOOSE v \in {flat[i] : i \in 1..Len(flat)} :
        /\ Cardinality({i \in 1..Len(flat) : flat[i] <= v}) >= k
        /\ Cardinality({i \in 1..Len(flat) : flat[i] < v}) < k

\* np.median of a 2D slice: the middle value, or the mean of the two middle values
Median(plane) ==
    LET flat == Flatten(plane)
        n == Len(flat)
    IN  IF n % 2 = 1
        THEN KthSmallest(flat, (n + 1) \div 2)
        ELSE (KthSmallest(flat, n \div 2) + KthSmallest(flat, (n \div 2) + 1)) \div 2

\* the value np.pad writes for constant_values=v: cast to the dtype of the array it pads
PadCast(dtype, v) == IF dtype = "int" THEN 2 * (v \div 2) ELSE v

\* np.pad(plane, ((oy, oy), (ox, ox)), 'constant', constant_values=median), oy, ox >= 0
NpPad(plane, dtype, oy, ox, median) ==
    LET h == Len(plane)
        w == Len(plane[1])
    IN  [r \in 1..(h + 2 * oy) |->
          [c \in 1..(w + 2 * ox) |->
             IF r > oy /\ r <= oy + h /\ c > ox /\ c <= ox + w
             THEN plane[r - oy][c - ox]
             ELSE PadCast(dtype, median)]]

----------------------------------------------------------------------------
(* The run of main() *)

prefix == "data"

source == "volume.h5"

transpose == "None"

\* the file name of a window: '{}_{}_{}x{}x{}x{}.png'.format(prefix, z, xS, xE, yS, yE)
Fname(p, k, x0, x1, y0, y1) == <<p, k, x0, x1, y0, y1, ".png">>

\* a sign slip in the stride
StrideSum(window, overlap) == window + overlap

\* the step of the window loop along an axis: window - overlap
Stride(window, overlap) == window - overlap

\* the raw candidate taken as the start, the clamp forgotten
ClampStartNone(s, extent, window) == s

\* the clamp one pixel short of the far edge
ClampStartShort(s, extent, window) == Min(s, extent - window - 1)

\* the clamped start of the window for the raw candidate s
ClampStart(s, extent, window) == Min(s, extent - window)

\* the end of the window that starts at start
WindowEnd(start, window) == start + window

\* zS = 0 if zS == 'start' else int(zS)
ParseStart(tok) == IF tok = "start" THEN 0 ELSE PyInt(tok)

\* zE = data.shape[0] if zE == 'end' else int(zE)
ParseEnd(tok, vol) == IF tok = "end" THEN Shape(vol)[1] ELSE PyInt(tok)

\* the two spatial axes mixed up in the descriptor
TileSwapped(k, x0, x1, y0, y1, sh) ==
    [slice |-> k, xstart |-> y0, xend |-> y1, ystart |-> x0, yend |-> x1,
     fname |-> Fname(prefix, k, y0, y1, x0, x1),
     rows |-> PySliceLen(y0, y1, sh[2]),
     cols |-> PySliceLen(x0, x1, sh[3])]

\* one imsave call: the window, its file name and the shape of
\* roi = data[z, yS:yE, xS:xE] on data of shape sh
Tile(k, x0, x1, y0, y1, sh) ==
    [slice |-> k, xstart |-> x0, xend |-> x1, ystart |-> y0, yend |-> y1,
     fname |-> Fname(prefix, k, x0, x1, y0, y1),
     rows |-> PySliceLen(y0, y1, sh[2]),
     cols |-> PySliceLen(x0, x1, sh[3])]

\* the manifest row of a window
CsvRow(fname, k, x0, x1, y0, y1) ==
    <<fname, prefix, k, x0, x1, y0, y1, source, transpose>>

Columns ==
    <<"filename", "prefix", "slice", "xstart", "xend", "ystart", "yend", "#source", "#transpose">>

\* df.index.name = 'id': the text of the first cell of the header line
IndexName == <<"i", "d">>

\* DataFrame.to_csv: the index column comes first, counted from 0 in every frame
HeaderLine == <<IndexName>> \o Columns

BodyLines(rows) == [i \in 1..Len(rows) |-> <<PyStr(i - 1)>> \o rows[i]]

\* the text to_csv writes: with the header line, or with header=False
ToCsv(rows, header) == IF header THEN <<HeaderLine>> \o BodyLines(rows) ELSE BodyLines(rows)

\* the header written again on every flush
FlushCsvHeaderAlways(file, rows) ==
    [isfile |-> TRUE, lines |-> file.lines \o ToCsv(rows, TRUE)]

\* the manifest file after the flush of lines 137-146
FlushCsv(file, rows) ==
    IF file.isfile
    THEN [isfile |-> TRUE, lines |-> file.lines \o ToCsv(rows, FALSE)]
    ELSE [isfile |-> TRUE, lines |-> ToCsv(rows, TRUE)]

\* the padded array of lines 106-115, a float array
PadVolume(d, overlap) ==
    LET median == Median(d.vol[1])
    IN  [dtype |-> "float",
         vol |-> [i \in 1..Len(d.vol) |->
                    NpPad(d.vol[i], d.dtype, overlap[2], overlap[1], median)]]

\* np.zeros and np.pad raise ValueError for a negative size or pad width
PadRaises(d, overlap) ==
    \/ overlap[1] < 0
    \/ overlap[2] < 0
    \/ Shape(d.vol)[2] + 2 * overlap[2] < 0
    \/ Shape(d.vol)[3] + 2 * overlap[1] < 0

Finished(outcome) == [args |-> args, tiles |-> tiles, outcome |-> outcome]

\* an exception leaves main(): the rows collected so far are lost, the images stay
Raise(exc) ==
    /\ pc' = "error"
    /\ error' = exc
    /\ history' = Append(history, Finished(exc))

Init ==
    /\ pc = "idle"
    /\ error = "None"
    /\ args = <<>>
    /\ data = <<>>
    /\ zS = 0
    /\ zE = 0
    /\ zs = <<>>
    /\ ys = <<>>
    /\ xs = <<>>
    /\ z = 0
    /\ yS = 0
    /\ yE = 0
    /\ visited = <<>>
    /\ tiles = <<>>
    /\ csv_list = <<>>
    /\ images = {}
    /\ csvfile = [isfile |-> FALSE, lines |-> <<>>]
    /\ nruns = 0
    /\ history = <<>>

\* main() is started when no run is in progress
CanStart == pc \in {"idle", "done", "error"} /\ nruns < MaxRuns

\* lines 68-99: parse the arguments, load /data, create the output directory,
\* resolve the slice range
Main(a) ==
    /\ CanStart
    /\ nruns' = nruns + 1
    /\ args' = a
    /\ data' = [dtype |-> a.dtype, vol |-> a.vol]
    /\ zS' = ParseStart(a.zrange[1])
    /\ zE' = ParseEnd(a.zrange[2], a.vol)
    /\ error' = "None"
    /\ zs' = <<>>
    /\ ys' = <<>>
    /\ xs' = <<>>
    /\ z' = 0
    /\ yS' = 0
    /\ yE' = 0
    /\ visited' = <<>>
    /\ tiles' = <<>>
    /\ csv_list' = <<>>
    /\ pc' = "pad"
    /\ UNCHANGED <<images, csvfile, history>>

\* lines 101-121: pad the data when the pad flag is set
Pad ==
    /\ pc = "pad"
    /\ IF args.pad
       THEN IF PadRaises(data, args.overlap)
            THEN /\ Raise("ValueError")
                 /\ UNCHANGED data
            ELSE /\ data' = PadVolume(data, args.overlap)
                 /\ pc' = "zenter"
                 /\ UNCHANGED <<error, history>>
       ELSE /\ pc' = "zenter"
            /\ UNCHANGED <<data, error, history>>
    /\ UNCHANGED <<args, zS, zE, zs, ys, xs, z, yS, yE, visited, tiles, csv_list,
                   images, csvfile, nruns>>

\* line 122: range(zS, zE, zskip)
ZEnter ==
    /\ pc = "zenter"
    /\ IF args.zskip = 0
       THEN /\ Raise("ValueError")
            /\ UNCHANGED zs
       ELSE /\ zs' = PyRange(zS, zE, args.zskip)
            /\ pc' = "zloop"
            /\ UNCHANGED <<error, history>>
    /\ UNCHANGED <<args, data, zS, zE, ys, xs, z, yS, yE, visited, tiles, csv_list,
                   images, csvfile, nruns>>

\* lines 122-124: the next slice, or the end of the slice loop; entering the
\* body announces the slice and builds the range of the y loop
ZNext ==
    /\ pc = "zloop"
    /\ IF zs = <<>>
       THEN /\ pc' = "flush"
            /\ UNCHANGED <<z, visited, ys, error, history>>
       ELSE /\ z' = Head(zs)
            /\ visited' = Append(visited, Head(zs))
            /\ IF Stride(args.window[2], args.overlap[2]) = 0
               THEN /\ Raise("ValueError")
                    /\ UNCHANGED ys
               ELSE /\ ys' = PyRange(0, Shape(data.vol)[2],
                                     Stride(args.window[2], args.overlap[2]))
                    /\ pc' = "yloop"
                    /\ UNCHANGED <<error, history>>
    /\ zs' = IF zs = <<>> THEN zs ELSE Tail(zs)
    /\ UNCHANGED <<args, data, zS, zE, xs, yS, yE, tiles, csv_list, images, csvfile, nruns>>

\* lines 124-126: the next row of windows, or the end of the y loop
YNext ==
    /\ pc = "yloop"
    /\ IF ys = <<>>
       THEN /\ pc' = "zloop"
            /\ UNCHANGED <<yS, yE, xs, error, history>>
       ELSE /\ yS' = ClampStart(Head(ys), Shape(data.vol)[2], args.window[2])
            /\ yE' = WindowEnd(yS', args.window[2])
            /\ IF Stride(args.window[1], args.overlap[1]) = 0
               THEN /\ Raise("ValueError")
                    /\ UNCHANGED xs
               ELSE /\ xs' = PyRange(0, Shape(data.vol)[3],
                                     Stride(args.window[1], args.overlap[1]))
                    /\ pc' = "xloop"
                    /\ UNCHANGED <<error, history>>
    /\ ys' = IF ys = <<>> THEN ys ELSE Tail(ys)
    /\ UNCHANGED <<args, data, zS, zE, zs, z, visited, tiles, csv_list, images, csvfile, nruns>>

\* lines 126-134: the next window of the row: cut it out, save the image,
\* collect the manifest row; or the end of the x loop
XNext ==
    /\ pc = "xloop"
    /\ IF xs = <<>>
       THEN /\ pc' = "yloop"
            /\ UNCHANGED <<tiles, csv_list, images, error, history>>
       ELSE LET sh == Shape(data.vol)
                xS == ClampStart(Head(xs), sh[3], args.window[1])
                xE == WindowEnd(xS, args.window[1])
                fname == Fname(prefix, z, xS, xE, yS, yE)
            IN  IF z >= sh[1]
                THEN /\ Raise("IndexError")
                     /\ UNCHANGED <<tiles, csv_list, images>>
                ELSE /\ tiles' = Append(tiles, Tile(z, xS, xE, yS, yE, sh))
                     /\ images' = images \cup {fname}
                     /\ csv_list' = IF args.fillcsv
                                    THEN Append(csv_list, CsvRow(fname, z, xS, xE, yS, yE))
                                    ELSE csv_list
                     /\ pc' = "xloop"
                     /\ UNCHANGED <<error, history>>
    /\ xs' = IF xs = <<>> THEN xs ELSE Tail(xs)
    /\ UNCHANGED <<args, data, zS, zE, zs, ys, z, yS, yE, visited, csvfile, nruns>>

\* lines 136-146: write the manifest when the CSV flag is set
Flush ==
    /\ pc = "flush"
    /\ csvfile' = IF args.fillcsv THEN FlushCsv(csvfile, csv_list) ELSE csvfile
    /\ pc' = "done"
    /\ history' = Append(history, Finished("None"))
    /\ UNCHANGED <<error, args, data, zS, zE, zs, ys, xs, z, yS, yE, visited, tiles,
                   csv_list, images, nruns>>

Run == Pad \/ ZEnter \/ ZNext \/ YNext \/ XNext \/ Flush

----------------------------------------------------------------------------
(* The inputs the specifications draw from *)

\* a volume of the given shape whose pixels are all 0
ZeroVol(s, h, w) == [i \in 1..s |-> [r \in 1..h |-> [c \in 1..w |-> 0]]]

\* integer pixel values 0..MaxPix, in half units
PixValues == {2 * v : v \in 0..MaxPix}

\* every volume of the given shape
Volumes(s, h, w) == [1..s -> [1..h -> [1..w -> PixValues]]]

Overlaps == (0 - NegOverlap)..MaxOverlap

\* window and overlap geometry over every small shape of one or two slices;
\* all slices, one by one
SpatialArgs ==
    {[vol |-> ZeroVol(s, h, w), dtype |-> "int", window |-> <<wx, wy>>,
      overlap |-> <<ox, oy>>, zrange |-> <<"start", "end">>, zskip |-> 1,
      pad |-> p, fillcsv |-> TRUE] :
        s \in {1, 2}, h \in 1..MaxExtent, w \in 1..MaxExtent,
        wx \in 1..MaxWindow, wy \in 1..MaxWindow,
        ox \in Overlaps, oy \in Overlaps, p \in BOOLEAN}

StartTokens == {"start"} \cup {DigitStr[i] : i \in 1..(MaxSlices + 1)}

EndTokens == {"end"} \cup {DigitStr[i] : i \in 1..(MaxSlices + 2)}

\* slice selections over a few geometries, one of them with a zero stride
SliceArgs ==
    {[vol |-> ZeroVol(s, 2, 2), dtype |-> "int", window |-> <<2, 2>>,
      overlap |-> o, zrange |-> <<a, b>>, zskip |-> k,
      pad |-> FALSE, fillcsv |-> f] :
        s \in 1..MaxSlices, o \in {<<1, 1>>, <<2, 1>>, <<1, 3>>},
        a \in StartTokens, b \in EndTokens, k \in 0..(MaxSlices + 1), f \in BOOLEAN}

PlanArgs == SpatialArgs \cup SliceArgs

\* the few command lines the repeated runs choose from
RunArgs ==
    {[vol |-> ZeroVol(s, 3, 3), dtype |-> "int", window |-> <<2, 2>>,
      overlap |-> o, zrange |-> <<"start", "end">>, zskip |-> k,
      pad |-> p, fillcsv |-> f] :
        s \in {1, 2}, o \in {<<1, 1>>, <<0, 1>>}, k \in {0, 1},
        p \in {FALSE}, f \in BOOLEAN}

\* the shapes of the volumes whose pixel contents are enumerated
PadShapes == {<<1, 1, 2>>, <<2, 1, 2>>, <<2, 2, 1>>, <<1, 2, 2>>, <<1, 1, 3>>}

\* volumes with every pixel content, of both dtypes
PadArgs ==
    UNION {{[vol |-> v, dtype |-> t, window |-> <<2, 2>>,
             overlap |-> <<ox, oy>>, zrange |-> <<"0", "1">>, zskip |-> 1,
             pad |-> p, fillcsv |-> FALSE] :
                v \in Volumes(sh[1], sh[2], sh[3]), t \in {"int", "float"},
                ox \in 0..1, oy \in 0..1, p \in BOOLEAN} :
           sh \in PadShapes}

----------------------------------------------------------------------------
(* Specifications *)

\* repeated runs into one output directory
Next == (CanStart /\ \E a \in RunArgs : Main(a)) \/ Run

Spec == Init /\ [][Next]_vars

\* one run, over the window geometries and the slice selections
NextPlan == (nruns = 0 /\ \E a \in PlanArgs : Main(a)) \/ Run

SpecPlan == Init /\ [][NextPlan]_vars

\* one run, over the pixel contents
NextPad == (nruns = 0 /\ \E a \in PadArgs : Main(a)) \/ Run

SpecPad == Init /\ [][NextPad]_vars

----------------------------------------------------------------------------
(* Vocabulary of the properties *)

Started == pc # "idle"

\* the extents of the array the window loops run over
Height == Shape(data.vol)[2]

Width == Shape(data.vol)[3]

StrideX == args.window[1] - args.overlap[1]

StrideY == args.window[2] - args.overlap[2]

\* window_dimension <= axis_extent and window_dimension > overlap_dimension
ValidX == args.window[1] <= Width /\ args.window[1] > args.overlap[1]

ValidY == args.window[2] <= Height /\ args.window[2] > args.overlap[2]

LastTile == tiles[Len(tiles)]

\* the x loop of a row has just ended (or the first row of a later slice is about to start)
RowEnded == pc = "yloop" /\ tiles # <<>>

\* the y loop of a slice has just ended
SliceEnded == pc = "zloop" /\ tiles # <<>>

\* the pixel columns covered by the windows of the row that ended last
RowPixels ==
    UNION {tiles[i].xstart..(tiles[i].xend - 1) :
             i \in {j \in 1..Len(tiles) : /\ tiles[j].slice = LastTile.slice
                                          /\ tiles[j].ystart = LastTile.ystart}}

\* the pixel rows covered by the windows of the slice that ended last
SlicePixels ==
    UNION {tiles[i].ystart..(tiles[i].yend - 1) :
             i \in {j \in 1..Len(tiles) : tiles[j].slice = LastTile.slice}}

CeilDiv(a, b) == (a + b - 1) \div b

----------------------------------------------------------------------------
(* C1: when the window is no larger than the axis and larger than the      *)
(* overlap on both axes, every window main() emits has the configured      *)
(* size: xend - xstart is the window width, yend - ystart the window       *)
(* height, and the region cut out of the data has that many columns and    *)
(* rows, the windows clamped at the far edge included.                     *)
C1_TileSize ==
    (Started /\ ValidX /\ ValidY) =>
        \A i \in 1..Len(tiles) :
            /\ tiles[i].xend - tiles[i].xstart = args.window[1]
            /\ tiles[i].yend - tiles[i].ystart = args.window[2]
            /\ tiles[i].cols = args.window[1]
            /\ tiles[i].rows = args.window[2]

\* a finished run that emitted a window whose start was clamped on both axes
C1_Witness ==
    /\ pc = "done"
    /\ ValidX /\ ValidY
    /\ \E i \in 1..Len(tiles) :
          /\ tiles[i].xstart % StrideX # 0
          /\ tiles[i].ystart % StrideY # 0
          /\ tiles[i].cols = args.window[1]

(* C2 as stated: for window <= extent and window > overlap, the windows    *)
(* emitted along an axis cover exactly the pixels 0..extent-1 of it.       *)
C2_CoverageAsStated ==
    /\ (RowEnded /\ ValidX) => RowPixels = 0..(Width - 1)
    /\ (SliceEnded /\ ValidY) => SlicePixels = 0..(Height - 1)

(* C2 amended: for window <= extent and 0 <= overlap < window, the windows *)
(* emitted along an axis cover exactly the pixels 0..extent-1 of it: no    *)
(* pixel is left out and no window reaches outside the axis.               *)
C2_Coverage ==
    /\ (RowEnded /\ ValidX /\ args.overlap[1] >= 0) => RowPixels = 0..(Width - 1)
    /\ (SliceEnded /\ ValidY /\ args.overlap[2] >= 0) => SlicePixels = 0..(Height - 1)

\* a slice was tiled completely, with a stride that does not divide either extent
C2_Witness ==
    /\ SliceEnded
    /\ ValidX /\ ValidY
    /\ args.overlap[1] >= 0 /\ args.overlap[2] >= 0
    /\ Width % StrideX # 0
    /\ Height % StrideY # 0
    /\ Len(tiles) > 1

(* C3 as stated: the last window emitted along an axis ends exactly at the *)
(* axis extent.                                                            *)
C3_LastEndAsStated ==
    /\ (RowEnded /\ ValidX) => LastTile.xend = Width
    /\ (SliceEnded /\ ValidY) => LastTile.yend = Height

(* C3 amended: for window <= extent and 0 <= overlap < window, the last    *)
(* window emitted along an axis ends exactly at the axis extent, also when *)
(* the stride does not divide the extent.                                  *)
C3_LastEnd ==
    /\ (RowEnded /\ ValidX /\ args.overlap[1] >= 0) => LastTile.xend = Width
    /\ (SliceEnded /\ ValidY /\ args.overlap[2] >= 0) => LastTile.yend = Height

\* a row ended whose last raw candidate had to be clamped
C3_Witness ==
    /\ RowEnded
    /\ ValidX
    /\ args.overlap[1] >= 0
    /\ Width % StrideX # 0
    /\ LastTile.xstart % StrideX # 0
    /\ LastTile.xend = Width

----------------------------------------------------------------------------
(* C4: when the window is larger than the extent of the array being tiled  *)
(* on either axis, the run fails and produces nothing: it does not finish, *)
(* emits no window, saves no image and collects no manifest row.           *)
C4_OversizeWindowFails ==
    (pc \notin {"idle", "pad"} /\ (args.window[1] > Width \/ args.window[2] > Height)) =>
        /\ pc # "done"
        /\ tiles = <<>>
        /\ images = {}
        /\ csv_list = <<>>

(* C5: a stride window - overlap that is zero or negative on either axis   *)
(* makes planning fail: a run that visited a slice never completes         *)
(* normally with such a stride.                                            *)
C5_BadStrideFails ==
    (pc \in {"flush", "done"} /\ visited # <<>>) => (StrideX > 0 /\ StrideY > 0)

----------------------------------------------------------------------------
VisitedSet == {visited[i] : i \in 1..Len(visited)}

\* {start, start+k, start+2k, ...} intersected with [start, end)
Selected == {n \in zS..(zE - 1) : (n - zS) % args.zskip = 0}

\* start is 0 for the token 'start', end is the slice count for the token 'end'
TokensResolved ==
    /\ args.zrange[1] = "start" => zS = 0
    /\ args.zrange[2] = "end" => zE = Len(args.vol)
    /\ args.zrange[1] # "start" => DigitStr[zS + 1] = args.zrange[1]
    /\ args.zrange[2] # "end" => DigitStr[zE + 1] = args.zrange[2]

(* C7 as stated, for runs whose windows fit the axes and whose overlap is   *)
(* between 0 and the window: with skip = k >= 1 a run visits exactly the   *)
(* slices {start, start+k, ...} within [start, end); with skip = 0 it      *)
(* fails and visits no slice.                                              *)
C7_VisitedAsStated ==
    (pc \in {"done", "error"} /\ ValidX /\ ValidY
        /\ args.overlap[1] >= 0 /\ args.overlap[2] >= 0) =>
        /\ TokensResolved
        /\ IF args.zskip >= 1
           THEN VisitedSet = Selected
           ELSE pc = "error" /\ visited = <<>>

(* C7 amended: with skip = k >= 1 a run that completes has visited exactly *)
(* the slices {start, start+k, ...} within [start, end), and a run that    *)
(* fails has visited only the first of them, in ascending order; with      *)
(* skip = 0 the run fails and visits no slice.                             *)
C7_Visited ==
    Started =>
        /\ TokensResolved
        /\ args.zskip >= 1 =>
              /\ \A i \in 1..Len(visited) :
                    visited[i] = zS + (i - 1) * args.zskip /\ visited[i] < zE
              /\ pc = "done" => VisitedSet = Selected
        /\ args.zskip = 0 => (pc \in {"pad", "zenter", "error"} /\ visited = <<>>)

\* a completed run with a literal start that skipped a slice and visited two
C7_Witness ==
    /\ pc = "done"
    /\ args.zskip = 2
    /\ args.zrange[1] # "start"
    /\ Len(visited) = 2
    /\ VisitedSet = Selected

----------------------------------------------------------------------------
\* the windows of a run in closed form: window i of the row-major enumeration
\* of the raw candidates 0, stride, 2*stride, ... below the extent
NthTile(i) ==
    LET nx == CeilDiv(Width, StrideX)
        ny == CeilDiv(Height, StrideY)
        k == i - 1
    IN  [slice |-> visited[(k \div (nx * ny)) + 1],
         xstart |-> Min((k % nx) * StrideX, Width - args.window[1]),
         ystart |-> Min(((k \div nx) % ny) * StrideY, Height - args.window[2])]

(* C10: clamped windows are not deduplicated: for window <= extent and a   *)
(* positive stride a completed run emits one window per raw candidate,     *)
(* ceil(height / stride_y) * ceil(width / stride_x) per visited slice, and *)
(* a candidate that clamps onto an earlier window emits the same           *)
(* descriptor, file name and manifest row again (extent 100, window 40,    *)
(* overlap 10 gives the starts 0, 30, 60, 60).                             *)
C10_NoDedup ==
    /\ (pc = "done" /\ args.window[1] <= Width /\ args.window[2] <= Height
                    /\ StrideX > 0 /\ StrideY > 0) =>
          /\ Len(tiles) = Len(visited) * CeilDiv(Height, StrideY) * CeilDiv(Width, StrideX)
          /\ \A i \in 1..Len(tiles) :
                /\ tiles[i].slice = NthTile(i).slice
                /\ tiles[i].xstart = NthTile(i).xstart
                /\ tiles[i].ystart = NthTile(i).ystart
                /\ tiles[i].fname =
                      Fname(prefix, tiles[i].slice, tiles[i].xstart, tiles[i].xend,
                            tiles[i].ystart, tiles[i].yend)
          /\ args.fillcsv =>
                /\ Len(csv_list) = Len(tiles)
                /\ \A i \in 1..Len(tiles) : csv_list[i][1] = tiles[i].fname
    /\ [i \in 1..PyRangeLen(0, 100, Stride(40, 10)) |->
          ClampStart(PyRange(0, 100, Stride(40, 10))[i], 100, 40)] = <<0, 30, 60, 60>>

\* a completed run that emitted the same descriptor and manifest row twice
C10_Witness ==
    /\ pc = "done"
    /\ args.fillcsv
    /\ \E i, j \in 1..Len(tiles) :
          /\ i < j
          /\ tiles[i] = tiles[j]
          /\ csv_list[i] = csv_list[j]

----------------------------------------------------------------------------
\* the row of windows that window i belongs to, counted over the whole run
RowOf(i) == (i - 1) \div CeilDiv(Width, StrideX)

----------------------------------------------------------------------------
\* a line that starts with the name of the index column is a header line
IsHeader(line) == line[1] = IndexName /\ line = HeaderLine

HeaderCount == Cardinality({i \in 1..Len(csvfile.lines) : IsHeader(csvfile.lines[i])})

\* the manifest has one header line, its first line, whenever the file exists
OneHeader ==
    /\ csvfile.isfile => (csvfile.lines # <<>> /\ IsHeader(csvfile.lines[1]) /\ HeaderCount = 1)
    /\ ~csvfile.isfile => csvfile.lines = <<>>

\* the body lines a flush adds: one per window of the run, numbered from 0, in order
OwnBody(lines) ==
    /\ Len(lines) = Len(tiles)
    /\ \A i \in 1..Len(lines) :
          /\ lines[i][1] = PyStr(i - 1)
          /\ lines[i][2] = tiles[i].fname
          /\ ~IsHeader(lines[i])

\* a step that changes the manifest creates it with the header and the run's
\* body lines, or appends the run's body lines to the unchanged existing lines
CreateOrAppend ==
    csvfile' # csvfile =>
        /\ pc = "flush" /\ pc' = "done"
        /\ csvfile'.isfile
        /\ IF csvfile.isfile
           THEN /\ Len(csvfile'.lines) = Len(csvfile.lines) + Len(tiles)
                /\ SubSeq(csvfile'.lines, 1, Len(csvfile.lines)) = csvfile.lines
                /\ OwnBody(SubSeq(csvfile'.lines, Len(csvfile.lines) + 1, Len(csvfile'.lines)))
           ELSE /\ IsHeader(csvfile'.lines[1])
                /\ OwnBody(Tail(csvfile'.lines))

(* C8: starting with no manifest file, after any sequence of runs the      *)
(* manifest holds exactly one header line, as its first line: the first    *)
(* flush writes the header and one body line per window of its run, every  *)
(* later flush appends only the body lines of its own run and leaves the   *)
(* existing lines unchanged.                                               *)
C8_Manifest == []OneHeader /\ [][CreateOrAppend]_vars

\* the manifest after a create and an append that both wrote body lines
C8_Witness ==
    /\ Len(history) = 2
    /\ history[1].outcome = "None" /\ history[1].args.fillcsv /\ history[1].tiles # <<>>
    /\ history[2].outcome = "None" /\ history[2].args.fillcsv /\ history[2].tiles # <<>>
    /\ Len(csvfile.lines) = 1 + Len(history[1].tiles) + Len(history[2].tiles)
    /\ HeaderCount = 1

----------------------------------------------------------------------------
\* the pad step of this run has replaced the data by the padded array
Padded == pc \notin {"idle", "pad"} /\ args.pad /\ error = "None"

(* C9: padding a volume of shape (slices, height, width) with overlap      *)
(* (overlap_x, overlap_y) gives shape (slices, height + 2*overlap_y,       *)
(* width + 2*overlap_x); the input pixel (r, c) of slice i sits at         *)
(* (overlap_y + r, overlap_x + c) of output slice i, and every other       *)
(* output pixel equals the median of the pixels of input slice 0.          *)
C9_Padding ==
    Padded =>
        LET in == args.vol
            out == data.vol
            ox == args.overlap[1]
            oy == args.overlap[2]
            h == Shape(in)[2]
            w == Shape(in)[3]
        IN  /\ Shape(out) = <<Shape(in)[1], h + 2 * oy, w + 2 * ox>>
            /\ \A i \in 1..Len(out) : \A r \in 1..(h + 2 * oy) : \A c \in 1..(w + 2 * ox) :
                  out[i][r][c] = IF r > oy /\ r <= oy + h /\ c > ox /\ c <= ox + w
                                 THEN in[i][r - oy][c - ox]
                                 ELSE Median(in[1])

====
